---- MODULE Spec2Model ----
(***************************************************************************)
(* A model of the illumioapi label-group client (src/labelgroups.go):      *)
(*   - the lookup table p.LabelGroups and GetLabelGroups, which rebuilds   *)
(*     it from a fetched collection;                                       *)
(*   - ExpandLabelGroup / expandLabelGroup, the subgroup expansion;        *)
(*   - httpReq / httpSetup / asyncPoll, the request lifecycle with the     *)
(*     429 retry and the asynchronous job polling.                         *)
(* Three specifications share the variables: SpecExpand (expansion over a  *)
(* table built from a collection), SpecHTTP (one httpReq call against a    *)
(* nondeterministic server) and SpecGLG (GetLabelGroups calls).            *)
(***************************************************************************)
EXTENDS Integers, Sequences, FiniteSets, TLC

VARIABLES
    \* ---- PCE fields --------------------------------------------------
    LabelGroups,        \* p.LabelGroups: map[string]LabelGroup
    LabelGroupsSlice,   \* p.LabelGroupsSlice: []LabelGroup
    \* ---- ExpandLabelGroup ---------------------------------------------
    ePc,                \* position in ExpandLabelGroup
    eHref,              \* its argument href
    labelHrefs,         \* the accumulated []string (the result after the de-dupe)
    sgs,                \* the slice the outer range (line 87) iterates over
    sgIdx,              \* index of the outer range
    moreSGs,            \* moreSGs (lines 89, 95)
    newSGs,             \* the slice the inner range (line 94) iterates over
    newIdx,             \* index of the inner range
    prevHref,           \* argument of the previous completed call ("" if none)
    prevRet,            \* set of label hrefs the previous completed call returned
    \* ---- GetLabelGroups -----------------------------------------------
    gPc,                \* position in GetLabelGroups
    gArg,               \* pStatus as the caller passed it
    gStatus,            \* pStatus after line 43
    gErr,               \* err of the last GetCollection / of the return
    gIdx,               \* index of the range at line 53
    gBefore,            \* the lookup table when the running call started
    gCalls,             \* GetCollection calls of the running call, in order:
                        \* endpoint, async flag, error, number of items fetched
    \* ---- httpReq / httpSetup / asyncPoll ------------------------------
    hPc,                \* position in httpReq / httpSetup / asyncPoll
    hAsync,             \* the async argument of httpReq
    hEnvAsync,          \* whether the environment sets FORCE_ASYNC to "true"
    hFault,             \* which step before the request is sent fails, or "none"
    api,                \* httpReq's api: the envelope of the last attempt
    err,                \* httpReq's err: "nil" or an error kind
    retry,              \* httpReq's retry counter
    resp,               \* httpSetup's resp: the last response received
    asyncResults,       \* httpSetup's asyncResults
    setupCalls,         \* httpSetup invocations of this httpReq call
    sleeps30,           \* 30-second sleeps of this httpReq call
    attempts,           \* the status code each finished attempt returned
    firstRet,           \* what the first httpSetup invocation returned
    pollSleeps,         \* Retry-After sleeps of the running attempt
    pollGets,           \* poll GETs of the running attempt
    finalGets,          \* final GETs of the running attempt
    finalTarget,        \* locator the final GET was sent to
    finalResp,          \* response the final GET received
    doneHref,           \* result locators carried by the polls that returned "done"
    pollWaits,          \* the seconds the polls of the running attempt slept
    pollTargets,        \* the locators the poll GETs of the running attempt went to
    pollResp            \* the response of the last poll GET (NoResp: none)

expandVars == <<ePc, eHref, labelHrefs, sgs, sgIdx, moreSGs, newSGs, newIdx,
                prevHref, prevRet>>
glgVars == <<gPc, gArg, gStatus, gErr, gIdx, gBefore, gCalls>>
httpVars == <<hPc, hAsync, hEnvAsync, hFault, api, err, retry, resp, asyncResults, setupCalls,
              sleeps30, attempts, firstRet, pollSleeps, pollGets, finalGets,
              finalTarget, finalResp, doneHref, pollWaits, pollTargets, pollResp>>
pollGhosts == <<pollWaits, pollTargets, pollResp>>
pceVars == <<LabelGroups, LabelGroupsSlice>>
vars == <<pceVars, expandVars, glgVars, httpVars>>

----------------------------------------------------------------------------
(* Bounds of the model. *)

\* Longest labelHrefs slice the process can hold; an append beyond it is the
\* runtime running out of memory.
MaxLabelHrefs == 12
\* Longest sub_groups list of a generated collection.
MaxSubs == 2
\* Polls the modelled server answers with a job that is not done, per attempt.
MaxPolls == 3

----------------------------------------------------------------------------
(* Label groups and the lookup table. *)

\* type LabelGroup: the fields the code reads. Labels and SubGroups hold the
\* hrefs of *[]Label and *[]SubGroups; a nil pointer is the empty sequence.
LG(href, name, key, labels, subs) ==
    [Href |-> href, Name |-> name, Key |-> key, Labels |-> labels, SubGroups |-> subs]

\* The zero LabelGroup a Go map returns for an absent key.
ZeroLG == LG("", "", "", << >>, << >>)

\* A lookup that answers an absent key with one of the stored groups.
LookupFallback(table, href) ==
    IF href \in DOMAIN table THEN table[href]
    ELSE IF DOMAIN table = {} THEN ZeroLG
    ELSE table[CHOOSE k \in DOMAIN table : TRUE]

\* PtrToVal(p.LabelGroups[href].X): the element, or the zero value.
Lookup(table, href) ==
    IF href \in DOMAIN table THEN table[href] ELSE ZeroLG

\* table[k] = v
Put(table, k, v) ==
    [x \in (DOMAIN table) \cup {k} |-> IF x = k THEN v ELSE table[x]]

\* The three assignments of one iteration of the range at line 53.
InsertLG(table, lg) ==
    Put(Put(Put(table, lg.Href, lg), lg.Name, lg), lg.Key \o lg.Name, lg)

EmptyTable == [x \in {} |-> ZeroLG]

RECURSIVE BuildFrom(_, _, _)
BuildFrom(table, slice, i) ==
    IF i > Len(slice) THEN table
    ELSE BuildFrom(InsertLG(table, slice[i]), slice, i + 1)

\* Lines 52-57: the table GetLabelGroups builds from a slice.
BuildTable(slice) == BuildFrom(EmptyTable, slice, 1)

----------------------------------------------------------------------------
(* The collections the server is modelled to return. *)

L1 == "/labels/1"
L2 == "/labels/2"
L3 == "/labels/3"
HrefA == "/lg/a"
HrefB == "/lg/b"
\* A reference no collection contains.
Missing == "/lg/missing"

SeqsUpTo(S, n) == UNION {[1..k -> S] : k \in 0..n}

\* Two groups with every choice of sub_groups lists over themselves, each
\* other and an absent reference.
GenCollections ==
    { << LG(HrefA, "A", "role", <<L1, L2>>, sa), LG(HrefB, "B", "loc", <<L2, L3>>, sb) >> :
        sa \in SeqsUpTo({HrefA, HrefB, Missing}, MaxSubs),
        sb \in SeqsUpTo({HrefA, HrefB, Missing}, MaxSubs) }

\* One group, no subgroups, a label listed twice.
Flat == << LG(HrefA, "A", "role", <<L1, L2, L1>>, << >>) >>

\* a -> b -> c
Chain == << LG(HrefA, "A", "role", <<L1>>, <<HrefB>>),
            LG(HrefB, "B", "role", <<L2>>, <<"/lg/c">>),
            LG("/lg/c", "C", "role", <<L3>>, << >>) >>

\* p -> c, c -> x and y, x -> z: a group with two subgroups, the first of
\* which has a subgroup of its own.
Nested == << LG("/lg/p", "P", "app", <<L1>>, <<"/lg/c">>),
             LG("/lg/c", "C", "app", << >>, <<"/lg/x", "/lg/y">>),
             LG("/lg/x", "X", "app", <<L2>>, <<"/lg/z">>),
             LG("/lg/y", "Y", "app", <<L2>>, << >>),
             LG("/lg/z", "Z", "app", <<L3>>, << >>) >>

\* a -> b and c, b -> d, c -> d
Diamond == << LG(HrefA, "A", "env", << >>, <<HrefB, "/lg/c">>),
              LG(HrefB, "B", "env", <<L1>>, <<"/lg/d">>),
              LG("/lg/c", "C", "env", <<L2>>, <<"/lg/d">>),
              LG("/lg/d", "D", "env", <<L3, L1>>, << >>) >>

\* a -> b -> a, neither with labels of its own
CycleNoLabels == << LG(HrefA, "A", "role", << >>, <<HrefB>>),
                    LG(HrefB, "B", "role", << >>, <<HrefA>>) >>

Collections ==
    GenCollections \cup {<< >>, Flat, Chain, Nested, Diamond, CycleNoLabels}

----------------------------------------------------------------------------
(* What an expansion is meant to return: graph operators used by the       *)
(* properties, not by the model of the code.                               *)

Range(s) == {s[i] : i \in 1..Len(s)}

SubsOf(table, href) == Range(Lookup(table, href).SubGroups)

RECURSIVE ReachFrom(_, _, _)
ReachFrom(table, frontier, seen) ==
    IF frontier \subseteq seen THEN seen
    ELSE ReachFrom(table, UNION {SubsOf(table, h) : h \in frontier}, seen \cup frontier)

\* The references reachable from root through sub_groups, root included.
Reach(table, root) == ReachFrom(table, {root}, {})

\* The references reachable from href in one or more steps.
ReachPlus(table, href) == ReachFrom(table, SubsOf(table, href), {})

Acyclic(table) == \A k \in DOMAIN table : k \notin ReachPlus(table, k)

ReachLabels(table, root) ==
    UNION {Range(Lookup(table, h).Labels) : h \in Reach(table, root)}

----------------------------------------------------------------------------
(* ExpandLabelGroup (lines 78-112) and expandLabelGroup (lines 114-122).   *)

\* An expansion of one group that misses the group's last label.
expandLabelGroupShort(table, href) ==
    [labelHrefs |-> SubSeq(Lookup(table, href).Labels, 1,
                           Len(Lookup(table, href).Labels) - 1),
     moreSGs    |-> Lookup(table, href).SubGroups]

\* expandLabelGroup(href): the label hrefs and the subgroup hrefs of one group.
expandLabelGroup(table, href) ==
    [labelHrefs |-> Lookup(table, href).Labels,
     moreSGs    |-> Lookup(table, href).SubGroups]

\* labelHrefs = append(labelHrefs, l...) succeeds while the slice fits in memory.
Fits(l) == Len(labelHrefs) + Len(l) <= MaxLabelHrefs

\* The slices a range over a map with the keys S can build (lines 108-110):
\* every key once, in any order.
Orderings(S) ==
    {q \in [1..Cardinality(S) -> S] : \A i, j \in 1..Cardinality(S) : q[i] = q[j] => i = j}

\* A return of the accumulated slice as it is.
DeDupeSkipped(l) == {l}

\* The de-dupe of lines 103-110.
DeDupe(l) == Orderings(Range(l))

\* Lines 80-87: the call, the root's own labels, and the range expression of
\* the outer loop.
ExpandCall(href) ==
    /\ ePc \in {"idle", "returned"}
    /\ eHref' = href
    /\ prevHref' = IF ePc = "returned" THEN eHref ELSE ""
    /\ prevRet' = IF ePc = "returned" THEN Range(labelHrefs) ELSE {}
    /\ labelHrefs' = expandLabelGroup(LabelGroups, href).labelHrefs
    /\ sgs' = Lookup(LabelGroups, href).SubGroups
    /\ sgIdx' = 1
    /\ moreSGs' = << >>
    /\ newSGs' = << >>
    /\ newIdx' = 1
    /\ ePc' = "outer"
    /\ UNCHANGED <<pceVars, glgVars, httpVars>>

\* Lines 87-91: one iteration of the outer range, or its end.
ExpandSubGroup ==
    /\ ePc = "outer"
    /\ IF sgIdx > Len(sgs)
       THEN /\ ePc' = "dedupe"
            /\ UNCHANGED <<labelHrefs, sgIdx, moreSGs>>
       ELSE LET r == expandLabelGroup(LabelGroups, sgs[sgIdx])
            IN  IF Fits(r.labelHrefs)
                THEN /\ labelHrefs' = labelHrefs \o r.labelHrefs
                     /\ moreSGs' = r.moreSGs
                     /\ sgIdx' = sgIdx + 1
                     /\ ePc' = "while"
                ELSE /\ ePc' = "oom"
                     /\ UNCHANGED <<labelHrefs, sgIdx, moreSGs>>
    /\ UNCHANGED <<eHref, sgs, newSGs, newIdx, prevHref, prevRet>>
    /\ UNCHANGED <<pceVars, glgVars, httpVars>>

\* Line 93: the loop condition; line 94: the range expression is evaluated once.
ExpandWhile ==
    /\ ePc = "while"
    /\ IF Len(moreSGs) > 0
       THEN /\ newSGs' = moreSGs
            /\ newIdx' = 1
            /\ ePc' = "inner"
       ELSE /\ ePc' = "outer"
            /\ UNCHANGED <<newSGs, newIdx>>
    /\ UNCHANGED <<eHref, labelHrefs, sgs, sgIdx, moreSGs, prevHref, prevRet>>
    /\ UNCHANGED <<pceVars, glgVars, httpVars>>

\* Lines 94-98: one iteration of the inner range (moreSGs is overwritten by
\* every iteration), or its end.
ExpandMore ==
    /\ ePc = "inner"
    /\ IF newIdx > Len(newSGs)
       THEN /\ ePc' = "while"
            /\ UNCHANGED <<labelHrefs, moreSGs, newIdx>>
       ELSE LET r == expandLabelGroup(LabelGroups, newSGs[newIdx])
            IN  IF Fits(r.labelHrefs)
                THEN /\ labelHrefs' = labelHrefs \o r.labelHrefs
                     /\ moreSGs' = r.moreSGs
                     /\ newIdx' = newIdx + 1
                     /\ ePc' = "inner"
                ELSE /\ ePc' = "oom"
                     /\ UNCHANGED <<labelHrefs, moreSGs, newIdx>>
    /\ UNCHANGED <<eHref, sgs, sgIdx, newSGs, prevHref, prevRet>>
    /\ UNCHANGED <<pceVars, glgVars, httpVars>>

\* Lines 102-111: de-dupe and return.
ExpandReturn ==
    /\ ePc = "dedupe"
    /\ labelHrefs' \in DeDupe(labelHrefs)
    /\ ePc' = "returned"
    /\ UNCHANGED <<eHref, sgs, sgIdx, moreSGs, newSGs, newIdx, prevHref, prevRet>>
    /\ UNCHANGED <<pceVars, glgVars, httpVars>>

\* The steps ExpandLabelGroup takes on its own once called.
ExpandStep == ExpandSubGroup \/ ExpandWhile \/ ExpandMore \/ ExpandReturn

----------------------------------------------------------------------------
(* Values of the request lifecycle. *)

\* http.Header, as far as the code reads it: Header.Get yields "" for an
\* absent header.
NoHeader == [Location |-> "", RetryAfter |-> ""]

\* APIResponse{}: the zero envelope.
ZeroAPI == [StatusCode |-> 0, RespBody |-> "", Header |-> NoHeader]

\* No response received yet.
NoResp == [StatusCode |-> 0, Body |-> "", Header |-> NoHeader]

\* The zero asyncResults.
ZeroAsync == [Status |-> "", ResultHref |-> ""]

\* The state of the three parts when no call of theirs is running.
ExpandIdle ==
    /\ ePc = "idle" /\ eHref = "" /\ labelHrefs = << >> /\ sgs = << >> /\ sgIdx = 1
    /\ moreSGs = << >> /\ newSGs = << >> /\ newIdx = 1 /\ prevHref = "" /\ prevRet = {}

GLGIdle ==
    /\ gPc = "idle" /\ gArg = << >> /\ gStatus = "" /\ gErr = "nil" /\ gIdx = 1
    /\ gBefore = EmptyTable /\ gCalls = << >>

HTTPIdle ==
    /\ hPc = "idle" /\ hAsync = FALSE /\ hEnvAsync = FALSE /\ hFault = "none"
    /\ api = ZeroAPI /\ err = "nil" /\ retry = 0 /\ resp = NoResp /\ asyncResults = ZeroAsync /\ setupCalls = 0
    /\ sleeps30 = 0 /\ attempts = << >> /\ firstRet = << >> /\ pollSleeps = 0
    /\ pollGets = 0 /\ finalGets = 0 /\ finalTarget = "" /\ finalResp = NoResp
    /\ doneHref = {} /\ pollWaits = {} /\ pollTargets = {} /\ pollResp = NoResp

----------------------------------------------------------------------------
(* Expansion over a table a collection call has built. *)

\* The references a caller expands: every key of the table and an absent one.
Roots == (DOMAIN LabelGroups) \cup {Missing}

InitExpand ==
    /\ LabelGroupsSlice \in Collections
    /\ LabelGroups = BuildTable(LabelGroupsSlice)
    /\ ExpandIdle /\ GLGIdle /\ HTTPIdle

NextExpand ==
    \/ \E href \in Roots : ExpandCall(href)
    \/ ExpandSubGroup
    \/ ExpandWhile
    \/ ExpandMore
    \/ ExpandReturn

SpecExpand == InitExpand /\ [][NextExpand]_vars

\* Once called, ExpandLabelGroup keeps running: nothing in the code suspends it.
FairSpecExpand == SpecExpand /\ WF_vars(ExpandStep)

----------------------------------------------------------------------------
(* Properties of the expansion. *)

\* A call of ExpandLabelGroup is in progress.
ExpandRunning == ePc \in {"outer", "while", "inner", "dedupe"}

\* C1: ExpandLabelGroup terminates on every lookup table, cyclic ones
\* included: every call that has started eventually ends. (The claim asks
\* for a return; a call the runtime ends for lack of memory is granted here
\* as an end too, so that only a run that goes on forever refutes it.)
C1_ExpandTerminates == ExpandRunning ~> (ePc \in {"returned", "oom"})

\* C2: on a table whose subgroup references are acyclic, a call that has
\* returned has returned exactly the labels of the groups reachable from its
\* root through subgroup references at any depth, root included.
C2_ExpandReachable ==
    (ePc = "returned" /\ Acyclic(LabelGroups))
        => Range(labelHrefs) = ReachLabels(LabelGroups, eHref)

\* C3: when ExpandLabelGroup(parent) and then ExpandLabelGroup(child) have
\* returned, child a subgroup reference listed directly in parent, the first
\* result is a superset of the second.
C3_ParentSupersetOfChild ==
    (ePc = "returned" /\ prevHref \in DOMAIN LabelGroups
        /\ eHref \in SubsOf(LabelGroups, prevHref))
        => Range(labelHrefs) \subseteq prevRet

\* No element occurs twice in the sequence.
NoRepeat(l) == \A i, j \in 1..Len(l) : l[i] = l[j] => i = j

\* C15: for a root in the table that has no subgroups, ExpandLabelGroup
\* returns the root's own labels, each once.
C15_NoSubgroupsDirectLabels ==
    (/\ ePc = "returned"
     /\ eHref \in DOMAIN LabelGroups
     /\ LabelGroups[eHref].SubGroups = << >>)
        => /\ Range(labelHrefs) = Range(LabelGroups[eHref].Labels)
           /\ NoRepeat(labelHrefs)

\* ExpandLabelGroup has returned for the group that lists /labels/1 twice.
C15_Witness ==
    /\ ePc = "returned"
    /\ LabelGroupsSlice = Flat
    /\ eHref = HrefA
    /\ Range(labelHrefs) = {L1, L2}
    /\ Len(labelHrefs) = 2

\* C16: for a root absent from the table (an empty table included)
\* ExpandLabelGroup returns the empty set and never fails; a subgroup
\* reference absent from the table adds no labels and no subgroups.
C16_AbsentContributesNothing ==
    /\ (ePc # "idle" /\ eHref \notin DOMAIN LabelGroups) =>
           /\ ePc # "oom"
           /\ labelHrefs = << >>
           /\ sgs = << >> /\ moreSGs = << >>
    /\ \A h \in Range(sgs) \cup Range(newSGs) :
           h \notin DOMAIN LabelGroups =>
               expandLabelGroup(LabelGroups, h) = [labelHrefs |-> << >>, moreSGs |-> << >>]
    /\ (/\ ePc = "returned"
        /\ eHref \in DOMAIN LabelGroups
        /\ Range(sgs) \cap DOMAIN LabelGroups = {})
           => Range(labelHrefs) = Range(LabelGroups[eHref].Labels)

\* ExpandLabelGroup has returned for a reference that a populated table
\* does not hold.
C16_Witness ==
    /\ ePc = "returned"
    /\ eHref = Missing
    /\ LabelGroups # EmptyTable
    /\ labelHrefs = << >>

\* C17: the slice ExpandLabelGroup returns holds no label reference twice.
C17_NoDuplicates == ePc = "returned" => NoRepeat(labelHrefs)

\* ExpandLabelGroup has returned for the root of the diamond, where
\* /labels/1 is listed by two visited groups and /lg/d is visited twice.
C17_Witness ==
    /\ ePc = "returned"
    /\ LabelGroupsSlice = Diamond
    /\ eHref = HrefA
    /\ Range(labelHrefs) = {L1, L2, L3}

\* Sanity: on an acyclic table no call runs out of memory.
AcyclicFits == Acyclic(LabelGroups) => ePc # "oom"

----------------------------------------------------------------------------
(* The modelled server and the conversions httpSetup and asyncPoll apply.  *)

\* The program's numbers.
TooManyRequests == 429
MaxRetry == 6

\* Status codes a response can carry. net/http accepts any three-character
\* status, so "020" arrives as StatusCode 20.
StatusCodes == {20, 199, 200, 299, 300, 429, 500}

\* Location and Retry-After values of an initial response.
Locations == {"/jobs/1", "%zz"}
RetryAfters == {"2", "0", "", "soon"}

\* What the server sends back for a GET of a locator.
ServerBody(target) == "payload of " \o target

\* The locator of the request httpReq is called with.
APIPath == "/orgs/1/sec_policy/draft/label_groups"

\* Responses to the request itself.
InitialResponses ==
    { [StatusCode |-> c, Body |-> ServerBody(APIPath),
       Header |-> [Location |-> l, RetryAfter |-> ra]] :
        c \in StatusCodes, l \in Locations, ra \in RetryAfters }

\* Responses to the GET of a result locator.
ResultResponses(target) ==
    { [StatusCode |-> c, Body |-> ServerBody(target), Header |-> NoHeader] :
        c \in StatusCodes }

\* Bodies of the responses to a poll GET.
PollBodies == {"status: running", "status: done, result: /reports/1",
               "status: done, result: %zz", "not json"}

\* json.Unmarshal(data, &asyncResults) at line 367, its error dropped: a
\* payload that does not decode leaves the zero value.
Unmarshal(body) ==
    CASE body = "status: running" -> [Status |-> "running", ResultHref |-> ""]
      [] body = "status: done, result: /reports/1" ->
             [Status |-> "done", ResultHref |-> "/reports/1"]
      [] body = "status: done, result: %zz" -> [Status |-> "done", ResultHref |-> "%zz"]
      [] OTHER -> ZeroAsync

\* The headers the server sends with the response to a poll GET: a locator
\* and a wait hint of their own.
PollHeader == [Location |-> "/jobs/1/next", RetryAfter |-> "5"]

\* strconv.Atoi of a header value (line 341).
Atoi(s) ==
    CASE s = "0" -> [ok |-> TRUE, n |-> 0]
      [] s = "2" -> [ok |-> TRUE, n |-> 2]
      [] s = "5" -> [ok |-> TRUE, n |-> 5]
      [] OTHER -> [ok |-> FALSE, n |-> 0]

\* Whether http.NewRequest accepts baseURL + ref (lines 266, 330): an invalid
\* percent-escape makes url.Parse fail.
ValidRef(ref) == ref # "%zz"

\* strconv.Itoa(n)[0:1] for n >= 0: the first decimal digit.
RECURSIVE LeadingDigit(_)
LeadingDigit(n) == IF n < 10 THEN n ELSE LeadingDigit(n \div 10)

\* Line 300: the status check.
IsSuccess(code) == LeadingDigit(code) = 2

\* Lines 293-297: the envelope built from a response.
Envelope(r) == [StatusCode |-> r.StatusCode, RespBody |-> r.Body, Header |-> r.Header]

\* A polling loop that stops as soon as the job is no longer running.
PollNotRunning(ar) == ar.Status # "running"

\* Line 256: the polling loop's exit condition.
PollDone(ar) == ar.Status = "done"

\* A poller that follows the headers of the latest poll response.
PolledWithLatest(initial, latest) ==
    IF latest = NoResp THEN initial.Header ELSE latest.Header

\* Line 259: httpSetup hands its resp, the initial response, to every call of
\* asyncPoll; lines 330 and 341 read the headers of that origResp.
PolledWith(initial, latest) == initial.Header

\* A poller that reports a payload that does not decode.
DecodeErrChecked(body) == IF Unmarshal(body) = ZeroAsync THEN "json" ELSE "nil"

\* Lines 367-369: the err asyncPoll returns after the body is read: the error
\* of json.Unmarshal is dropped, err is the nil of io.ReadAll.
DecodeErr(body) == "nil"

\* The poll counters count up to MaxPolls, which stands for MaxPolls or more.
Counted(n) == IF n < MaxPolls THEN n + 1 ELSE MaxPolls

\* Line 266: the locator of the final GET.
FinalLocator(ar) == ar.ResultHref

\* A retry loop that also retries server errors.
ShouldRetryServerErrors(a) == a.StatusCode = TooManyRequests \/ a.StatusCode >= 500

\* Line 384: the condition of the retry loop.
ShouldRetry(a) == a.StatusCode = TooManyRequests

\* A retry bound of three tries, as the comment at line 383 has it.
RetriesExhaustedAfterThree(r) == r > 2

\* Line 386: the retry bound.
RetriesExhausted(r) == r > MaxRetry

\* Lines 227-229, 236, 253: whether the attempt takes the async path.
AsyncInEffect == hAsync \/ hEnvAsync

----------------------------------------------------------------------------
(* httpReq (lines 377-397), httpSetup (lines 188-306), asyncPoll (309-370) *)

\* Line 380: httpReq is called and makes the initial call of httpSetup.
HttpReqCall(async, envAsync, fault) ==
    /\ hPc \in {"idle", "returned"}
    /\ hAsync' = async /\ hEnvAsync' = envAsync /\ hFault' = fault
    /\ api' = ZeroAPI /\ err' = "nil" /\ retry' = 0
    /\ resp' = NoResp /\ asyncResults' = ZeroAsync
    /\ setupCalls' = 0 /\ sleeps30' = 0 /\ attempts' = << >> /\ firstRet' = << >>
    /\ pollSleeps' = 0 /\ pollGets' = 0 /\ finalGets' = 0
    /\ finalTarget' = "" /\ finalResp' = NoResp /\ doneHref' = {}
    /\ pollWaits' = {} /\ pollTargets' = {} /\ pollResp' = NoResp
    /\ hPc' = "setup"
    /\ UNCHANGED <<pceVars, expandVars, glgVars>>

\* asyncPoll's origResp, as far as it is read: the headers.
origResp == PolledWith(resp, pollResp)

\* httpSetup returns (a, e) to httpReq, which assigns them to api and err.
SetupReturns(a, e) ==
    /\ api' = a
    /\ err' = e
    /\ attempts' = Append(attempts, a.StatusCode)
    /\ firstRet' = IF firstRet = << >> THEN <<a, e>> ELSE firstRet
    /\ hPc' = "check"

\* httpSetup is entered: its locals are fresh.
EnterSetup ==
    /\ setupCalls' = setupCalls + 1
    /\ asyncResults' = ZeroAsync
    /\ pollSleeps' = 0 /\ pollGets' = 0 /\ finalGets' = 0
    /\ finalTarget' = "" /\ finalResp' = NoResp /\ doneHref' = {}
    /\ pollWaits' = {} /\ pollTargets' = {} /\ pollResp' = NoResp

\* Lines 188-225: httpSetup is entered; url.Parse of apiURL or of the proxy, or
\* http.NewRequest, fails.
HttpSetupFault ==
    /\ hPc = "setup"
    /\ hFault # "none"
    /\ EnterSetup
    /\ resp' = NoResp
    /\ SetupReturns(ZeroAPI, hFault)
    /\ UNCHANGED <<hAsync, hEnvAsync, hFault, retry, sleeps30>>
    /\ UNCHANGED <<pceVars, expandVars, glgVars>>

\* Lines 188-245: httpSetup is entered and client.Do fails.
HttpSetupDoFails ==
    /\ hPc = "setup"
    /\ hFault = "none"
    /\ EnterSetup
    /\ resp' = NoResp
    /\ SetupReturns(ZeroAPI, "transport")
    /\ UNCHANGED <<hAsync, hEnvAsync, hFault, retry, sleeps30>>
    /\ UNCHANGED <<pceVars, expandVars, glgVars>>

\* Lines 188-253: httpSetup is entered and client.Do returns a response.
HttpSetupDo(r) ==
    /\ hPc = "setup"
    /\ hFault = "none"
    /\ EnterSetup
    /\ resp' = r
    /\ hPc' = IF AsyncInEffect THEN "loop" ELSE "read"
    /\ UNCHANGED <<hAsync, hEnvAsync, hFault, api, err, retry, sleeps30, attempts,
                   firstRet>>
    /\ UNCHANGED <<pceVars, expandVars, glgVars>>

\* Line 256: the condition of the polling loop.
HttpSetupLoop ==
    /\ hPc = "loop"
    /\ hPc' = IF PollDone(asyncResults) THEN "final" ELSE "poll"
    /\ UNCHANGED <<hAsync, hEnvAsync, hFault, api, err, retry, resp, asyncResults,
                   setupCalls, sleeps30, attempts, firstRet, pollSleeps, pollGets,
                   finalGets, finalTarget, finalResp, doneHref>>
    /\ UNCHANGED <<pceVars, expandVars, glgVars, pollGhosts>>

\* Lines 330-331: http.NewRequest fails on the Location of the initial
\* response, pollReq is nil, and line 331 evaluates pollReq.URL before the
\* error is looked at: a nil pointer dereference.
AsyncPollPanics ==
    /\ hPc = "poll"
    /\ ~ValidRef(origResp.Location)
    /\ hPc' = "panic"
    /\ UNCHANGED <<hAsync, hEnvAsync, hFault, api, err, retry, resp, asyncResults,
                   setupCalls, sleeps30, attempts, firstRet, pollSleeps, pollGets,
                   finalGets, finalTarget, finalResp, doneHref>>
    /\ UNCHANGED <<pceVars, expandVars, glgVars, pollGhosts>>

\* Lines 341-345 (and 260-262): Retry-After is no integer; asyncPoll returns the
\* error and httpSetup returns APIResponse{} with it.
AsyncPollNoWait ==
    /\ hPc = "poll"
    /\ ValidRef(origResp.Location)
    /\ ~Atoi(origResp.RetryAfter).ok
    /\ asyncResults' = ZeroAsync
    /\ SetupReturns(ZeroAPI, "atoi")
    /\ UNCHANGED <<hAsync, hEnvAsync, hFault, retry, resp, setupCalls, sleeps30,
                   pollSleeps, pollGets, finalGets, finalTarget, finalResp, doneHref>>
    /\ UNCHANGED <<pceVars, expandVars, glgVars, pollGhosts>>

\* Lines 341-349: the sleep for the Retry-After seconds.
AsyncPollSleep ==
    /\ hPc = "poll"
    /\ ValidRef(origResp.Location)
    /\ Atoi(origResp.RetryAfter).ok
    /\ pollSleeps' = Counted(pollSleeps)
    /\ pollWaits' = pollWaits \cup {Atoi(origResp.RetryAfter).n}
    /\ UNCHANGED <<pollTargets, pollResp>>
    /\ hPc' = "get"
    /\ UNCHANGED <<hAsync, hEnvAsync, hFault, api, err, retry, resp, asyncResults,
                   setupCalls, sleeps30, attempts, firstRet, pollGets, finalGets,
                   finalTarget, finalResp, doneHref>>
    /\ UNCHANGED <<pceVars, expandVars, glgVars>>

\* Lines 353-364 (and 260-262): the poll GET, or the read of its body, fails.
AsyncPollGetFails(e) ==
    /\ hPc = "get"
    /\ pollGets' = Counted(pollGets)
    /\ pollTargets' = pollTargets \cup {origResp.Location}
    /\ pollResp' = NoResp
    /\ UNCHANGED pollWaits
    /\ asyncResults' = ZeroAsync
    /\ SetupReturns(ZeroAPI, e)
    /\ UNCHANGED <<hAsync, hEnvAsync, hFault, retry, resp, setupCalls, sleeps30,
                   pollSleeps, finalGets, finalTarget, finalResp, doneHref>>
    /\ UNCHANGED <<pceVars, expandVars, glgVars>>

\* Lines 353-369: the poll GET returns a body, which is decoded into the
\* asyncResults of httpSetup (line 259); lines 260-262 look at the err that
\* asyncPoll returns with it.
AsyncPollGet(body) ==
    /\ hPc = "get"
    /\ pollGets' = Counted(pollGets)
    /\ pollTargets' = pollTargets \cup {origResp.Location}
    /\ pollResp' = [StatusCode |-> 200, Body |-> body, Header |-> PollHeader]
    /\ UNCHANGED pollWaits
    /\ asyncResults' = Unmarshal(body)
    /\ doneHref' = IF Unmarshal(body).Status = "done"
                   THEN doneHref \cup {Unmarshal(body).ResultHref} ELSE doneHref
    /\ IF DecodeErr(body) # "nil"
       THEN SetupReturns(ZeroAPI, DecodeErr(body))
       ELSE /\ hPc' = "loop"
            /\ UNCHANGED <<api, err, attempts, firstRet>>
    /\ UNCHANGED <<hAsync, hEnvAsync, hFault, retry, resp, setupCalls,
                   sleeps30, pollSleeps, finalGets, finalTarget, finalResp>>
    /\ UNCHANGED <<pceVars, expandVars, glgVars>>

\* Lines 266-269: http.NewRequest fails on the result locator.
HttpSetupFinalBad ==
    /\ hPc = "final"
    /\ ~ValidRef(FinalLocator(asyncResults))
    /\ SetupReturns(ZeroAPI, "newrequest")
    /\ UNCHANGED <<hAsync, hEnvAsync, hFault, retry, resp, asyncResults, setupCalls,
                   sleeps30, pollSleeps, pollGets, finalGets, finalTarget, finalResp,
                   doneHref>>
    /\ UNCHANGED <<pceVars, expandVars, glgVars, pollGhosts>>

\* Lines 266-280: the final GET is sent and client.Do fails.
HttpSetupFinalFails ==
    /\ hPc = "final"
    /\ ValidRef(FinalLocator(asyncResults))
    /\ finalGets' = finalGets + 1
    /\ finalTarget' = FinalLocator(asyncResults)
    /\ SetupReturns(ZeroAPI, "transport")
    /\ UNCHANGED <<hAsync, hEnvAsync, hFault, retry, resp, asyncResults, setupCalls,
                   sleeps30, pollSleeps, pollGets, finalResp, doneHref>>
    /\ UNCHANGED <<pceVars, expandVars, glgVars, pollGhosts>>

\* Lines 266-282: the final GET is sent and its response replaces resp.
HttpSetupFinal ==
    /\ hPc = "final"
    /\ ValidRef(FinalLocator(asyncResults))
    /\ finalGets' = finalGets + 1
    /\ finalTarget' = FinalLocator(asyncResults)
    /\ \E r \in ResultResponses(FinalLocator(asyncResults)) :
           resp' = r /\ finalResp' = r
    /\ hPc' = "read"
    /\ UNCHANGED <<hAsync, hEnvAsync, hFault, api, err, retry, asyncResults,
                   setupCalls, sleeps30, attempts, firstRet, pollSleeps, pollGets,
                   doneHref>>
    /\ UNCHANGED <<pceVars, expandVars, glgVars, pollGhosts>>

\* Lines 287-290: io.ReadAll of the response body fails.
HttpSetupReadFails ==
    /\ hPc = "read"
    /\ SetupReturns(ZeroAPI, "read")
    /\ UNCHANGED <<hAsync, hEnvAsync, hFault, retry, resp, asyncResults, setupCalls,
                   sleeps30, pollSleeps, pollGets, finalGets, finalTarget, finalResp,
                   doneHref>>
    /\ UNCHANGED <<pceVars, expandVars, glgVars, pollGhosts>>

\* Lines 287-305: the envelope is filled and the status code classified.
HttpSetupClassify ==
    /\ hPc = "read"
    /\ SetupReturns(Envelope(resp), IF IsSuccess(resp.StatusCode) THEN "nil" ELSE "status")
    /\ UNCHANGED <<hAsync, hEnvAsync, hFault, retry, resp, asyncResults, setupCalls,
                   sleeps30, pollSleeps, pollGets, finalGets, finalTarget, finalResp,
                   doneHref>>
    /\ UNCHANGED <<pceVars, expandVars, glgVars, pollGhosts>>

\* Lines 384, 396: the status is not 429 and httpReq returns api and err.
HttpReqReturn ==
    /\ hPc = "check"
    /\ ~ShouldRetry(api)
    /\ hPc' = "returned"
    /\ UNCHANGED <<hAsync, hEnvAsync, hFault, api, err, retry, resp, asyncResults,
                   setupCalls, sleeps30, attempts, firstRet, pollSleeps, pollGets,
                   finalGets, finalTarget, finalResp, doneHref>>
    /\ UNCHANGED <<pceVars, expandVars, glgVars, pollGhosts>>

\* Lines 384-388: the status is 429 and the retries are used up.
HttpReqGiveUp ==
    /\ hPc = "check"
    /\ ShouldRetry(api)
    /\ RetriesExhausted(retry)
    /\ err' = "exhausted"
    /\ hPc' = "returned"
    /\ UNCHANGED <<hAsync, hEnvAsync, hFault, api, retry, resp, asyncResults,
                   setupCalls, sleeps30, attempts, firstRet, pollSleeps, pollGets,
                   finalGets, finalTarget, finalResp, doneHref>>
    /\ UNCHANGED <<pceVars, expandVars, glgVars, pollGhosts>>

\* Lines 384-393: the status is 429; count the retry, sleep 30 seconds and call
\* httpSetup again.
HttpReqRetry ==
    /\ hPc = "check"
    /\ ShouldRetry(api)
    /\ ~RetriesExhausted(retry)
    /\ retry' = retry + 1
    /\ sleeps30' = sleeps30 + 1
    /\ hPc' = "setup"
    /\ UNCHANGED <<hAsync, hEnvAsync, hFault, api, err, resp, asyncResults,
                   setupCalls, attempts, firstRet, pollSleeps, pollGets, finalGets,
                   finalTarget, finalResp, doneHref>>
    /\ UNCHANGED <<pceVars, expandVars, glgVars, pollGhosts>>

\* The steps before the request is sent that can fail: url.Parse(apiURL)
\* (line 192), url.Parse(p.Proxy) (line 212), http.NewRequest (line 222).
Faults == {"none", "url", "proxy", "newrequest"}

InitHTTP ==
    /\ LabelGroupsSlice = << >>
    /\ LabelGroups = EmptyTable
    /\ ExpandIdle /\ GLGIdle /\ HTTPIdle

NextHTTP ==
    \/ \E async \in BOOLEAN, envAsync \in BOOLEAN, fault \in Faults :
           HttpReqCall(async, envAsync, fault)
    \/ HttpSetupFault
    \/ HttpSetupDoFails
    \/ \E r \in InitialResponses : HttpSetupDo(r)
    \/ HttpSetupLoop
    \/ AsyncPollPanics
    \/ AsyncPollNoWait
    \/ AsyncPollSleep
    \/ \E e \in {"transport", "read"} : AsyncPollGetFails(e)
    \/ \E body \in PollBodies : AsyncPollGet(body)
    \/ HttpSetupFinalBad
    \/ HttpSetupFinalFails
    \/ HttpSetupFinal
    \/ HttpSetupReadFails
    \/ HttpSetupClassify
    \/ HttpReqReturn
    \/ HttpReqGiveUp
    \/ HttpReqRetry

SpecHTTP == InitHTTP /\ [][NextHTTP]_vars

----------------------------------------------------------------------------
(* Properties of the request lifecycle. *)

\* The attempts so far: k answered 429, then one answered 2xx.
RateLimitedThenOK(k) ==
    /\ Len(attempts) = k + 1
    /\ \A i \in 1..k : attempts[i] = 429
    /\ attempts[k + 1] \in 200..299

\* C4: httpReq makes at most 6 retries after the initial attempt: at most 7
\* httpSetup invocations and at most 6 thirty-second sleeps in one call.
C4_AtMostSixRetries == setupCalls <= 7 /\ sleeps30 <= 6

C6_OnlyRateLimitRetried ==
    (firstRet # << >> /\ firstRet[1].StatusCode # 429)
        => /\ setupCalls = 1
           /\ sleeps30 = 0
           /\ hPc \in {"check", "returned"}
           /\ hPc = "returned" => (api = firstRet[1] /\ err = firstRet[2])

\* C6 witness: a first attempt answered 500 has been returned as it was.
C6_Witness ==
    /\ hPc = "returned" /\ firstRet # << >>
    /\ firstRet[1].StatusCode = 500 /\ firstRet[2] = "status"
    /\ api.StatusCode = 500 /\ err = "status" /\ setupCalls = 1

\* C7: within one attempt the final GET is sent at most once, only after a
\* poll returned status "done", and to the result locator of that status; an
\* attempt on the async path that returns an envelope has sent it exactly
\* once and returns the envelope of its response.
C7_FinalGetAfterDone ==
    /\ finalGets <= 1
    /\ finalGets = 1 =>
          /\ pollGets >= 1
          /\ asyncResults.Status = "done"
          /\ finalTarget = asyncResults.ResultHref
          /\ finalTarget \in doneHref
    /\ (AsyncInEffect /\ hPc \in {"check", "returned"} /\ api # ZeroAPI) =>
          /\ finalGets = 1
          /\ api = Envelope(finalResp)
          /\ api.RespBody = ServerBody(finalTarget)

\* C7 witness: two polls (the first not done, the second done with result
\* /reports/1), then the response fetched from /reports/1 is returned.
C7_Witness ==
    /\ hPc = "returned" /\ AsyncInEffect /\ setupCalls = 1
    /\ pollSleeps = 2 /\ pollGets = 2 /\ finalGets = 1
    /\ finalTarget = "/reports/1"
    /\ api.RespBody = ServerBody("/reports/1") /\ api.StatusCode = 200 /\ err = "nil"

\* The running attempt took the async path and its initial response carries
\* no integer Retry-After.
NoRetryAfter ==
    /\ AsyncInEffect
    /\ resp # NoResp /\ finalGets = 0
    /\ ~Atoi(resp.Header.RetryAfter).ok

\* C8: on the async path an initial response without an integer Retry-After
\* makes the call return an error at once: no sleep, no poll GET, no final
\* GET, no retry by httpReq.
C8_NoRetryAfterIsError ==
    NoRetryAfter =>
        /\ pollSleeps = 0 /\ pollGets = 0
        /\ hPc \in {"loop", "poll", "check", "returned"}
        /\ hPc \in {"check", "returned"} => (err = "atoi" /\ api = ZeroAPI)

\* C9: when httpSetup classifies a status code, it returns an error if and
\* only if the code is outside 200-299, and the envelope carries the status
\* code, the body and the headers of the response.
C9_ErrorIffNot2xx ==
    (hPc = "check" /\ err \in {"nil", "status"})
        => /\ (err # "nil") <=> (resp.StatusCode \notin 200..299)
           /\ api = Envelope(resp)

\* The positions inside the polling loop of lines 256-263.
Polling == {"loop", "poll", "get"}

\* The poll payloads that say the job is done.
DoneBodies == {"status: done, result: /reports/1", "status: done, result: %zz"}

\* The running attempt has polled, its last poll was answered, and no poll
\* of it was answered "done".
NeverDone ==
    /\ AsyncInEffect
    /\ pollGets >= 1
    /\ pollResp # NoResp
    /\ doneHref = {}

\* What a step of the polling loop may do.
PollingStep ==
    /\ (hPc \in Polling /\ hPc' \notin Polling /\ hPc' # "panic") =>
           \/ hPc = "loop" /\ hPc' = "final" /\ pollResp.Body \in DoneBodies
           \/ hPc' = "check" /\ err' # "nil"
    /\ (hPc = "get" /\ pollResp' # NoResp /\ pollResp'.Body \notin DoneBodies) =>
           /\ hPc' = "loop"
           /\ err' = err
           /\ asyncResults'.Status # "done"
    /\ (hPc = "get" /\ pollResp'.Body = "not json") => asyncResults' = ZeroAsync
    /\ (hPc = "loop" /\ pollResp.Body \notin DoneBodies) => hPc' = "poll"

C19_PollWaitsThenGets ==
    /\ hPc \in Polling \cup {"final"} =>
           /\ pollWaits \subseteq {Atoi(resp.Header.RetryAfter).n}
           /\ pollTargets \subseteq {resp.Header.Location}
           /\ pollGets >= 1 => (pollWaits # {} /\ pollTargets # {})
    /\ hPc = "get" =>
           pollSleeps = (IF pollGets < MaxPolls THEN pollGets + 1 ELSE MaxPolls)
    /\ hPc # "get" => pollSleeps = pollGets

\* Two polls of /jobs/1 were made, each after a sleep of 2 seconds, and both
\* were answered with headers of their own.
C19_Witness ==
    /\ hPc = "loop"
    /\ pollSleeps = 2 /\ pollGets = 2
    /\ pollWaits = {2}
    /\ pollTargets = {"/jobs/1"}
    /\ pollResp.Header = PollHeader

\* C20: when the Location of the initial response forms no valid URL,
\* asyncPoll returns the error of http.NewRequest and the call ends with
\* that error; the request object is not used before err is tested, so nothing
\* crashes.
C20_PollRequestErrorReturned ==
    (AsyncInEffect /\ resp # NoResp /\ finalGets = 0 /\ ~ValidRef(resp.Header.Location))
        => /\ hPc # "panic"
           /\ hPc \in {"check", "returned"} => err # "nil"

----------------------------------------------------------------------------
(* GetLabelGroups (lines 36-59).                                           *)

AsyncThreshold == 500

\* strings.ToLower on one character.
LowerOf(c) ==
    CASE c = "A" -> "a" [] c = "B" -> "b" [] c = "C" -> "c" [] c = "D" -> "d"
      [] c = "E" -> "e" [] c = "F" -> "f" [] c = "G" -> "g" [] c = "H" -> "h"
      [] c = "I" -> "i" [] c = "J" -> "j" [] c = "K" -> "k" [] c = "L" -> "l"
      [] c = "M" -> "m" [] c = "N" -> "n" [] c = "O" -> "o" [] c = "P" -> "p"
      [] c = "Q" -> "q" [] c = "R" -> "r" [] c = "S" -> "s" [] c = "T" -> "t"
      [] c = "U" -> "u" [] c = "V" -> "v" [] c = "W" -> "w" [] c = "X" -> "x"
      [] c = "Y" -> "y" [] c = "Z" -> "z" [] OTHER -> c

\* A validation that compares pStatus as the caller wrote it.
ToLowerSkipped(str) == str

\* strings.ToLower (line 43); a string is the sequence of its characters.
ToLower(str) == [i \in 1..Len(str) |-> LowerOf(str[i])]

Draft == <<"d", "r", "a", "f", "t">>
Active == <<"a", "c", "t", "i", "v", "e">>

\* Line 44: the validation of the lower-cased pStatus.
ValidStatus(st) == ~(st # Active /\ st # Draft)

\* Lines 47, 50: the endpoint of the collection call.
Endpoint(st) == <<"/sec_policy/">> \o st \o <<"/label_groups">>

\* The pStatus arguments callers pass.
StatusArgs ==
    { Draft, Active, <<"D", "r", "a", "f", "t">>, <<"A", "C", "T", "I", "V", "E">>,
      <<"s", "t", "a", "g", "i", "n", "g">>, << >> }

\* A collection that reaches the page-size ceiling.
Big ==
    [i \in 1..AsyncThreshold |->
        LG("/lg/" \o ToString(i), "G" \o ToString(i), "role", <<L1>>, << >>)]

\* A group whose name is the href of the group fetched before it.
NameIsHref ==
    << LG(HrefA, "A", "role", <<L1>>, << >>),
       LG("/lg/x", HrefA, "loc", <<L2>>, << >>) >>

\* A group whose key followed by its name is the href of the group fetched
\* before it.
KeyNameIsHref ==
    << LG(HrefA, "A", "role", <<L1>>, << >>),
       LG("/lg/y", "/a", "/lg", <<L2>>, << >>) >>

\* Two groups with the same name under different keys.
SharedName ==
    << LG(HrefA, "A", "role", <<L1>>, << >>),
       LG(HrefB, "A", "loc", <<L2>>, << >>) >>

\* The collections the server returns to a collection call.
ServerCollections ==
    {<< >>, Flat, Chain, Big, NameIsHref, KeyNameIsHref, SharedName}

\* p.GetCollection(endpoint, async, queryParameters, &p.LabelGroupsSlice): it
\* either fills the slice with the fetched items and returns a nil error, or
\* returns an error and leaves the slice as it was.
GetCollection(endpoint, async, slice) ==
    {[err |-> "nil", slice |-> c] : c \in ServerCollections}
        \cup {[err |-> "collection", slice |-> slice]}

\* The record of one GetCollection call: a call that fails fetched no items.
Called(endpoint, async, r) ==
    [endpoint |-> endpoint, async |-> async, err |-> r.err,
     fetched |-> IF r.err = "nil" THEN Len(r.slice) ELSE 0]

\* Lines 40-46: pStatus fails the validation.
GetLabelGroupsInvalid(pStatus) ==
    /\ gPc \in {"idle", "returned"}
    /\ ~ValidStatus(ToLower(pStatus))
    /\ gArg' = pStatus
    /\ gStatus' = ToLower(pStatus)
    /\ gBefore' = LabelGroups
    /\ gCalls' = << >>
    /\ gErr' = "invalid pStatus"
    /\ gIdx' = 1
    /\ gPc' = "returned"
    /\ UNCHANGED <<pceVars, expandVars, httpVars>>

\* Lines 40-47: pStatus is valid; the first collection call, without async.
GetLabelGroupsCall(pStatus) ==
    /\ gPc \in {"idle", "returned"}
    /\ ValidStatus(ToLower(pStatus))
    /\ gArg' = pStatus
    /\ gStatus' = ToLower(pStatus)
    /\ gBefore' = LabelGroups
    /\ \E r \in GetCollection(Endpoint(ToLower(pStatus)), FALSE, LabelGroupsSlice) :
           /\ gErr' = r.err
           /\ LabelGroupsSlice' = r.slice
           /\ gCalls' = << Called(Endpoint(ToLower(pStatus)), FALSE, r) >>
    /\ gIdx' = 1
    /\ gPc' = "len"
    /\ UNCHANGED <<LabelGroups, expandVars, httpVars>>

\* Lines 48-51: the slice holds 500 items or more; drop it and call again with
\* async.
GetLabelGroupsAsync ==
    /\ gPc = "len"
    /\ Len(LabelGroupsSlice) >= AsyncThreshold
    /\ \E r \in GetCollection(Endpoint(gStatus), TRUE, << >>) :
           /\ gErr' = r.err
           /\ LabelGroupsSlice' = r.slice
           /\ gCalls' = Append(gCalls, Called(Endpoint(gStatus), TRUE, r))
    /\ gPc' = "make"
    /\ UNCHANGED <<LabelGroups, gArg, gStatus, gIdx, gBefore, expandVars, httpVars>>

\* Line 48: the slice holds fewer than 500 items.
GetLabelGroupsSync ==
    /\ gPc = "len"
    /\ ~(Len(LabelGroupsSlice) >= AsyncThreshold)
    /\ gPc' = "make"
    /\ UNCHANGED <<pceVars, gArg, gStatus, gErr, gIdx, gBefore, gCalls, expandVars, httpVars>>

\* Line 52: p.LabelGroups = make(map[string]LabelGroup)
GetLabelGroupsMake ==
    /\ gPc = "make"
    /\ LabelGroups' = EmptyTable
    /\ gIdx' = 1
    /\ gPc' = "range"
    /\ UNCHANGED <<LabelGroupsSlice, gArg, gStatus, gErr, gBefore, gCalls, expandVars, httpVars>>

\* Lines 53-57: one iteration of the range over the slice.
GetLabelGroupsInsert ==
    /\ gPc = "range"
    /\ gIdx <= Len(LabelGroupsSlice)
    /\ LabelGroups' = InsertLG(LabelGroups, LabelGroupsSlice[gIdx])
    /\ gIdx' = gIdx + 1
    /\ UNCHANGED <<LabelGroupsSlice, gPc, gArg, gStatus, gErr, gBefore, gCalls, expandVars,
                   httpVars>>

\* Line 58: return api, err.
GetLabelGroupsReturn ==
    /\ gPc = "range"
    /\ gIdx > Len(LabelGroupsSlice)
    /\ gPc' = "returned"
    /\ UNCHANGED <<pceVars, gArg, gStatus, gErr, gIdx, gBefore, gCalls, expandVars, httpVars>>

\* Process start: the zero PCE.
InitGLG ==
    /\ LabelGroupsSlice = << >>
    /\ LabelGroups = EmptyTable
    /\ ExpandIdle /\ GLGIdle /\ HTTPIdle

NextGLG ==
    \/ \E pStatus \in StatusArgs : GetLabelGroupsInvalid(pStatus)
    \/ \E pStatus \in StatusArgs : GetLabelGroupsCall(pStatus)
    \/ GetLabelGroupsAsync
    \/ GetLabelGroupsSync
    \/ GetLabelGroupsMake
    \/ GetLabelGroupsInsert
    \/ GetLabelGroupsReturn

SpecGLG == InitGLG /\ [][NextGLG]_vars

----------------------------------------------------------------------------
(* ExpandLabelGroup called while GetLabelGroups runs on the same PCE: the   *)
(* two methods share p.LabelGroups and take no lock.                        *)

\* The next step of the expansion is a read of p.LabelGroups (line 115).
ExpandReadsNext ==
    \/ ePc \in {"idle", "returned"}
    \/ ePc = "outer" /\ sgIdx <= Len(sgs)
    \/ ePc = "inner" /\ newIdx <= Len(newSGs)

\* GetLabelGroups is inside the loop that writes p.LabelGroups (lines 53-57).
TableBeingWritten == gPc = "range" /\ gIdx <= Len(LabelGroupsSlice)

\* A read of the map that overlaps a write of it: the Go runtime may detect
\* it and end the process ("concurrent map read and map write"); when it
\* does not, the read is one of the steps of the expansion.
ExpandFatal ==
    /\ ExpandReadsNext
    /\ TableBeingWritten
    /\ ePc' = "fatal"
    /\ gPc' = "fatal"
    /\ UNCHANGED <<eHref, labelHrefs, sgs, sgIdx, moreSGs, newSGs, newIdx, prevHref,
                   prevRet>>
    /\ UNCHANGED <<pceVars, gArg, gStatus, gErr, gIdx, gBefore, gCalls, httpVars>>

\* The first collection call of lines 40-47 answered with less than a page.
GetLabelGroupsCallSmall(pStatus) ==
    /\ GetLabelGroupsCall(pStatus)
    /\ Len(LabelGroupsSlice') < AsyncThreshold

\* One caller refreshes the draft label groups while another expands a group.
ConcurrentStatus == {Draft, <<"s", "t", "a", "g", "i", "n", "g">>}
ConcurrentRoots == {HrefA, Missing}

NextConcurrent ==
    \/ \E pStatus \in ConcurrentStatus : GetLabelGroupsInvalid(pStatus)
    \/ \E pStatus \in ConcurrentStatus : GetLabelGroupsCallSmall(pStatus)
    \/ GetLabelGroupsSync
    \/ GetLabelGroupsMake
    \/ GetLabelGroupsInsert
    \/ GetLabelGroupsReturn
    \/ \E href \in ConcurrentRoots : ExpandCall(href)
    \/ ExpandSubGroup
    \/ ExpandWhile
    \/ ExpandMore
    \/ ExpandReturn
    \/ ExpandFatal

SpecConcurrent == InitGLG /\ [][NextConcurrent]_vars

----------------------------------------------------------------------------
(* Properties of GetLabelGroups. *)

\* C10: when GetLabelGroups returns a non-nil error, the lookup table is the
\* one it was when the call was made.
C10_TableKeptOnError ==
    (gPc = "returned" /\ gErr # "nil") => LabelGroups = gBefore

\* C11: after a GetLabelGroups call, every key of the lookup table that is the
\* Href of a fetched label group stores a group whose Href is that key.
C11_HrefKeysOwnGroup ==
    gPc = "returned" =>
        \A i \in 1..Len(LabelGroupsSlice) :
            LET k == LabelGroupsSlice[i].Href IN
                k \in DOMAIN LabelGroups => LabelGroups[k].Href = k

\* The letters of the two status names, in both cases.
Alphabet == <<"a", "c", "d", "e", "f", "i", "r", "t", "v">>
Capitals == <<"A", "C", "D", "E", "F", "I", "R", "T", "V">>

\* Two characters are the same letter when case is ignored.
SameLetter(c, d) ==
    \/ c = d
    \/ \E i \in 1..Len(Alphabet) : {c, d} = {Alphabet[i], Capitals[i]}

\* Two strings are equal when case is ignored.
EqualFold(a, b) ==
    /\ Len(a) = Len(b)
    /\ \A i \in 1..Len(a) : SameLetter(a[i], b[i])

\* The status names pStatus equals when case is ignored.
StatusNamed(arg) == {w \in {Draft, Active} : EqualFold(arg, w)}

\* C13: a pStatus that is neither "draft" nor "active" when case is ignored
\* makes GetLabelGroups return the invalid-status error without any
\* collection call; any casing of the two names passes the validation and
\* every collection call goes to the path with the lower-case name.
C13_StatusValidated ==
    gPc # "idle" =>
        /\ StatusNamed(gArg) = {} =>
               /\ gPc = "returned"
               /\ gErr = "invalid pStatus"
               /\ gCalls = << >>
               /\ LabelGroups = gBefore
        /\ \A w \in StatusNamed(gArg) :
               /\ gCalls # << >>
               /\ \A i \in 1..Len(gCalls) :
                      gCalls[i].endpoint = <<"/sec_policy/">> \o w \o <<"/label_groups">>

\* GetLabelGroups(nil, "staging") has returned the invalid-status error.
C13_Witness ==
    /\ gPc = "returned"
    /\ gArg = <<"s", "t", "a", "g", "i", "n", "g">>
    /\ gErr = "invalid pStatus"
    /\ gCalls = << >>

\* The keys lines 54-56 store a group under.
KeysOf(lg) == {lg.Href, lg.Name, lg.Key \o lg.Name}

\* The table holds the keys of the items, each with an item that has the key,
\* and nothing else.
BuiltFrom(table, items) ==
    /\ DOMAIN table = UNION {KeysOf(items[i]) : i \in 1..Len(items)}
    /\ {table[k] : k \in DOMAIN table} \subseteq Range(items)
    /\ \A k \in DOMAIN table : k \in KeysOf(table[k])

\* C14: the first collection call is made without async; a second call is
\* made if and only if the first one fetched 500 items or more; it is the
\* same call with async, made once, and the table is built from its items.
C14_AsyncIffFirstFull ==
    (gPc \in {"len", "make", "range", "returned"} /\ gCalls # << >>) =>
        /\ gCalls[1].async = FALSE
        /\ Len(gCalls) <= 2
        /\ gPc # "len" =>
               ((Len(gCalls) = 2) <=> (gCalls[1].fetched >= AsyncThreshold))
        /\ Len(gCalls) = 2 =>
               /\ gCalls[2].async = TRUE
               /\ gCalls[2].endpoint = gCalls[1].endpoint
               /\ gPc = "returned" =>
                      /\ Len(LabelGroupsSlice) = gCalls[2].fetched
                      /\ BuiltFrom(LabelGroups, LabelGroupsSlice)

\* The table is the one the running GetLabelGroups call found, or the one
\* built from all the items it fetched.
TableComplete ==
    \/ LabelGroups = gBefore
    \/ LabelGroups = BuildTable(LabelGroupsSlice)

\* A step of ExpandLabelGroup that reads the table.
ExpandReads ==
    \/ \E href \in ConcurrentRoots : ExpandCall(href)
    \/ ExpandSubGroup /\ sgIdx <= Len(sgs)
    \/ ExpandMore /\ newIdx <= Len(newSGs)

\* C12: a step of ExpandLabelGroup interleaved with a running GetLabelGroups
\* reads the complete previous table or the complete new table, never an
\* empty or partly filled one.
C12_SeesCompleteTable == [][ExpandReads => TableComplete]_vars

====
